---- MODULE Spec2Model ----
(***************************************************************************)
(* Model of src/lightning-test.py: a linear script that acquires the       *)
(* FashionMNIST splits, builds a NeuralNetwork (a LightningModule), runs   *)
(* Trainer.fit on it and prints one prediction.                            *)
(*                                                                         *)
(* One process executing the script is modelled.  Tensors are symbolic:    *)
(*   - an image is named by its split and index, a label is a class id;    *)
(*   - the parameters are the initial parameters followed by the batches   *)
(*     whose SGD update has been applied to them (in order);               *)
(*   - a loss is the pair (parameters, batch) it was computed from;        *)
(*   - the argmax of the logits is any class id (float arithmetic is not   *)
(*     modelled, so every outcome the build can produce is allowed).       *)
(* The calls the script makes into torchvision and lightning are modelled  *)
(* by what those calls do with the arguments the script passes (defaults   *)
(* included).                                                              *)
(***************************************************************************)
EXTENDS Integers, Sequences, FiniteSets, TLC

\* ---------------------------------------------------------------- bounds
MaxEpochs == 2          \* max_epochs ranges over 0..MaxEpochs (the script passes 5)
MaxTrain == 3           \* samples of the training split (FashionMNIST: 60000)
MaxTest == 5            \* samples of the held-out split (FashionMNIST: 10000)
batch_size == 2         \* line 69 sets 64; scaled down with the splits

\* ------------------------------------------------------ program constants
NumClasses == 10        \* nn.Linear(512, 10); len(classes)
NumSanityValSteps == 2  \* Trainer(...) leaves num_sanity_val_steps at its default

classes ==
    << "T-shirt/top", "Trouser", "Pullover", "Dress", "Coat",
       "Sandal", "Shirt", "Sneaker", "Bag", "Ankle boot" >>

ClassIds == 0 .. (NumClasses - 1)

\* Labels the bounded splits are filled with: both ends of the class range.
SampleLabels == {0, NumClasses - 1}

\* The files datasets.FashionMNIST keeps under <root>/FashionMNIST/raw.
Resources == {"train", "t10k"}

Min(a, b) == IF a < b THEN a ELSE b

VARIABLES
    pc,             \* position of the script: the statement to run next
    cwd,            \* the process's working directory
    remote,         \* the dataset as published: [train |-> labels, t10k |-> labels]
    storage,        \* absolute directory -> resources present on disk
    acquisitions,   \* one record per datasets.FashionMNIST(...) call
    training_data,  \* sequence of samples (empty until acquired)
    test_data,
    console,        \* lines the script printed
    constructions,  \* number of NeuralNetwork() instances created
    params,         \* the model's parameters: batches whose update was applied
    max_epochs,     \* Trainer(max_epochs=...)
    trainer,        \* "none" or "ready": the Trainer object exists
    stage,          \* driver: Idle, SanityCheck, Running, Completed, Failed
    epoch,          \* driver: current epoch
    phase,          \* driver: "train" or "validate" within an epoch
    substep,        \* driver: "step" (call the hook) or "update" (optimizer)
    batch_idx,      \* driver: index of the next batch of the phase
    pending_loss,   \* loss returned by the last training_step, awaiting backward
    last_step,      \* the last hook invocation: role, batch, params, returned loss
    calls,          \* number of hook invocations made by the driver
    metric_log,     \* every self.log(name, value) made, tagged with its invocation
    optimizer_steps,\* number of optimizer.step() calls
    sample,         \* the (x, y) drawn at line 78
    pred,           \* argmax of model(x) computed at line 80/94, or -1
    infer_params,   \* the parameters the inference forward pass read
    error,          \* the exception that terminated the script, or "none"
    trace           \* history of the operations executed

vars == << pc, cwd, remote, storage, acquisitions, training_data, test_data,
           console, constructions, params, max_epochs, trainer, stage, epoch,
           phase, substep, batch_idx, pending_loss, last_step, calls,
           metric_log, optimizer_steps, sample, pred, infer_params, error,
           trace >>

script_vars == << cwd, storage, acquisitions, training_data, test_data,
                  console, constructions, trainer, sample, pred, infer_params >>

driver_vars == << stage, epoch, phase, substep, batch_idx, pending_loss,
                  last_step, calls, metric_log, optimizer_steps, params >>

\* ------------------------------------------------------------- helpers
Dirs == {"/workspace", "/home/user"}

NoLoss == [params |-> << >>, batch |-> << >>]
NoStep == [role |-> "none", batch |-> << >>, params |-> << >>, ret |-> NoLoss]
NoSample == [x |-> [split |-> "none", i |-> 0], y |-> 0]

Event(op, e, i) == [op |-> op, epoch |-> e, idx |-> i]

\* Non-empty sequences over S of length at most n.
SeqsUpTo(S, n) == UNION { [1 .. k -> S] : k \in 1 .. n }

\* Labellings of a training split of at most n samples.  Training labels only
\* occur inside losses, so one labelling (cycling through the classes) is
\* enumerated per length; held-out labels, which reach the report, are free.
CyclicLabels(n) == { [i \in 1 .. k |-> (i - 1) % NumClasses] : k \in 1 .. n }

\* The samples of a split, as Dataset.__getitem__ yields them after ToTensor().
Samples(split, labels) ==
    [ i \in 1 .. Len(labels) |-> [x |-> [split |-> split, i |-> i], y |-> labels[i]] ]

\* DataLoader(ds, batch_size=bs): consecutive chunks, the last one possibly short
\* (shuffle and drop_last are left at False).
DataLoader(ds, bs) ==
    [ k \in 1 .. ((Len(ds) + bs - 1) \div bs) |->
        SubSeq(ds, (k - 1) * bs + 1, Min(k * bs, Len(ds))) ]

train_dataloader == DataLoader(training_data, batch_size)
val_dataloader == DataLoader(test_data, batch_size)

\* ------------------------------------------------------ NeuralNetwork
\* forward + cross_entropy (lines 23-25): the loss of a batch under parameters p.
cross_entropy(p, batch) == [params |-> p, batch |-> batch]

\* self.log(name, value) made during hook invocation `call` in role `role`.
LogEntry(call, role, name, value) ==
    [call |-> call, role |-> role, name |-> name, value |-> value]

\* Mutant of validation_step: computes a loss of its own (first sample only).
validation_step_own_loss(p, batch, call, role) ==
    LET loss == cross_entropy(p, << batch[1] >>)
    IN  [ret |-> loss, logged |-> << LogEntry(call, role, "val_loss", loss) >>]

\* training_step (lines 22-27): returns the loss, logs it as train_loss.
training_step(p, batch, call, role) ==
    LET loss == cross_entropy(p, batch)
    IN  [ret |-> loss, logged |-> << LogEntry(call, role, "train_loss", loss) >>]

\* validation_step (lines 29-32): calls training_step, then logs val_loss.
validation_step(p, batch, call, role) ==
    LET inner == training_step(p, batch, call, role)
        loss == inner.ret
    IN  [ret |-> loss,
         logged |-> inner.logged \o << LogEntry(call, role, "val_loss", loss) >>]

\* Mutant of sgd_step: the update is applied to freshly created parameters.
sgd_step_reset(p, loss) == << loss.batch >>

\* torch.optim.SGD(self.parameters(), lr=1e-3).step() after backward of `loss`:
\* the update computed from the loss's batch is applied in place.
sgd_step(p, loss) == Append(p, loss.batch)

\* ---------------------------------------------------------------- Init
Init ==
    /\ pc = "acquire_train"
    /\ cwd \in Dirs
    /\ remote \in [train : CyclicLabels(MaxTrain),
                   t10k  : SeqsUpTo(SampleLabels, MaxTest)]
    /\ storage \in [Dirs -> SUBSET Resources]
    /\ \A d \in Dirs : d # cwd => storage[d] = {}
    /\ acquisitions = << >>
    /\ training_data = << >>
    /\ test_data = << >>
    /\ console = << >>
    /\ constructions = 0
    /\ params = << >>
    /\ max_epochs \in 0 .. MaxEpochs
    /\ trainer = "none"
    /\ stage = "Idle"
    /\ epoch = 0
    /\ phase = "train"
    /\ substep = "step"
    /\ batch_idx = 0
    /\ pending_loss = NoLoss
    /\ last_step = NoStep
    /\ calls = 0
    /\ metric_log = << >>
    /\ optimizer_steps = 0
    /\ sample = NoSample
    /\ pred = -1
    /\ infer_params = << >>
    /\ error = "none"
    /\ trace = << >>

\* The script is straight-line code (lines 39-95): the statement after `at`.
NextStatementInferenceFirst(at) ==
    CASE at = "acquire_train" -> "acquire_test"
      [] at = "acquire_test" -> "chdir"
      [] at = "chdir" -> "print_path"
      [] at = "print_path" -> "construct"
      [] at = "construct" -> "trainer"
      [] at = "trainer" -> "loader"
      [] at = "loader" -> "inference"
      [] at = "inference" -> "fit"
      [] at = "fit" -> "report"
      [] OTHER -> "done"

NextStatement(at) ==
    CASE at = "acquire_train" -> "acquire_test"
      [] at = "acquire_test" -> "chdir"
      [] at = "chdir" -> "print_path"
      [] at = "print_path" -> "construct"
      [] at = "construct" -> "trainer"
      [] at = "trainer" -> "fit"
      [] at = "fit" -> "loader"
      [] at = "loader" -> "inference"
      [] at = "inference" -> "report"
      [] OTHER -> "done"

\* ------------------------------------------------------- error propagation
\* Mutant of Raise: the exception is caught and the statement is tried again.
RaiseCaught(e) ==
    /\ pc' = pc
    /\ error' = "none"

\* The script has no try/except (lines 39-95): an exception raised by any
\* statement terminates the process with that exception.
Raise(e) ==
    /\ pc' = "failed"
    /\ error' = e

\* The exception a failing statement raises.
ErrorAt(at) ==
    CASE at = "chdir" -> "FileNotFoundError"
      [] at = "fit" -> IF stage = "Idle" THEN "DeviceAllocationError" ELSE "RuntimeError"
      [] OTHER -> "RuntimeError"

\* --------------------------------------------------- dataset acquisition
\* root="data" is relative: it names <cwd>/data at the time of the call.
Location == cwd

\* MNIST._check_exists(): every resource of both splits is on disk.
check_exists(loc) == storage[loc] = Resources

\* Mutant of Acquire: only the requested split's resource is fetched and kept.
AcquireOwnSplit(split) ==
    LET loc == Location
        downloads == ~check_exists(loc)
    IN  /\ storage' = [storage EXCEPT ![loc] = storage[loc] \cup {split}]
        /\ acquisitions' = Append(acquisitions,
               [split |-> split, location |-> loc, downloaded |-> downloads, ok |-> TRUE])
        /\ trace' = Append(trace, Event("acquire_" \o split, 0, 0))

\* datasets.FashionMNIST(root="data", train=..., download=True, transform=ToTensor()):
\* download() returns at once when the files exist, else fetches every missing
\* resource of both splits into the root; then the requested split is loaded.
Acquire(split) ==
    LET loc == Location
        downloads == ~check_exists(loc)
    IN  /\ storage' = [storage EXCEPT ![loc] = Resources]
        /\ acquisitions' = Append(acquisitions,
               [split |-> split, location |-> loc, downloaded |-> downloads, ok |-> TRUE])
        /\ trace' = Append(trace, Event("acquire_" \o split, 0, 0))

\* lines 42-47
AcquireTrain ==
    /\ pc = "acquire_train"
    /\ Acquire("train")
    /\ training_data' = Samples("train", remote.train)
    /\ pc' = NextStatement(pc)
    /\ UNCHANGED << cwd, remote, test_data, console, constructions, max_epochs,
                    trainer, sample, pred, infer_params, error >>
    /\ UNCHANGED driver_vars

\* lines 50-55
AcquireTest ==
    /\ pc = "acquire_test"
    /\ Acquire("t10k")
    /\ test_data' = Samples("t10k", remote.t10k)
    /\ pc' = NextStatement(pc)
    /\ UNCHANGED << cwd, remote, training_data, console, constructions, max_epochs,
                    trainer, sample, pred, infer_params, error >>
    /\ UNCHANGED driver_vars

\* A download that fails (network, unwritable storage) raises out of the
\* constructor; the files fetched so far stay on disk.
AcquireFails ==
    /\ pc \in {"acquire_train", "acquire_test"}
    /\ ~check_exists(Location)
    /\ \E got \in SUBSET Resources :
          /\ storage[Location] \subseteq got
          /\ got # Resources
          /\ storage' = [storage EXCEPT ![Location] = got]
    /\ acquisitions' = Append(acquisitions,
           [split |-> IF pc = "acquire_train" THEN "train" ELSE "t10k",
            location |-> Location, downloaded |-> TRUE, ok |-> FALSE])
    /\ trace' = Append(trace, Event("acquire_failed", 0, 0))
    /\ Raise("DatasetAcquisitionError")
    /\ UNCHANGED << cwd, remote, training_data, test_data, console, constructions,
                    max_epochs, trainer, sample, pred, infer_params >>
    /\ UNCHANGED driver_vars

\* ------------------------------------------------------------ the script
\* line 62: os.chdir('/workspace')
Chdir ==
    /\ pc = "chdir"
    /\ cwd' = "/workspace"
    /\ pc' = NextStatement(pc)
    /\ trace' = Append(trace, Event("chdir", 0, 0))
    /\ UNCHANGED << remote, storage, acquisitions, training_data, test_data, console,
                    constructions, max_epochs, trainer, sample, pred, infer_params,
                    error >>
    /\ UNCHANGED driver_vars

\* Mutant of PrintPath: the path is computed but not printed.
PrintPathSilent ==
    /\ pc = "print_path"
    /\ pc' = NextStatement(pc)
    /\ trace' = Append(trace, Event("getcwd", 0, 0))
    /\ UNCHANGED << cwd, remote, storage, acquisitions, training_data, test_data,
                    console, constructions, max_epochs, trainer, sample, pred,
                    infer_params, error >>
    /\ UNCHANGED driver_vars

\* lines 63-64: path = os.getcwd(); print(path)
PrintPath ==
    /\ pc = "print_path"
    /\ console' = Append(console, [kind |-> "path", a |-> cwd, b |-> ""])
    /\ pc' = NextStatement(pc)
    /\ trace' = Append(trace, Event("print", 0, 0))
    /\ UNCHANGED << cwd, remote, storage, acquisitions, training_data, test_data,
                    constructions, max_epochs, trainer, sample, pred, infer_params,
                    error >>
    /\ UNCHANGED driver_vars

\* line 70: model = NeuralNetwork(): the parameters are created (lines 6-15).
Construct ==
    /\ pc = "construct"
    /\ constructions' = constructions + 1
    /\ params' = << >>
    /\ pc' = NextStatement(pc)
    /\ trace' = Append(trace, Event("construct", 0, 0))
    /\ UNCHANGED << cwd, remote, storage, acquisitions, training_data, test_data,
                    console, max_epochs, trainer, sample, pred, infer_params, error >>
    /\ UNCHANGED << stage, epoch, phase, substep, batch_idx, pending_loss, last_step,
                    calls, metric_log, optimizer_steps >>

\* line 73: trainer = L.Trainer(max_epochs=..., accelerator='gpu', devices=[0,1])
MakeTrainer ==
    /\ pc = "trainer"
    /\ trainer' = "ready"
    /\ pc' = NextStatement(pc)
    /\ trace' = Append(trace, Event("trainer", 0, 0))
    /\ UNCHANGED << cwd, remote, storage, acquisitions, training_data, test_data,
                    console, constructions, max_epochs, sample, pred, infer_params,
                    error >>
    /\ UNCHANGED driver_vars

\* ------------------------------------------------- Trainer.fit (line 74)
\* trainer.fit(model, DataLoader(training_data, ...), DataLoader(test_data, ...)):
\* the driver sets the devices up, then, because a validation loader and a
\* validation_step exist, first runs its sanity check.
FitStart ==
    /\ pc = "fit"
    /\ stage = "Idle"
    /\ trainer = "ready"
    /\ stage' = "SanityCheck"
    /\ batch_idx' = 0
    /\ trace' = Append(trace, Event("fit_start", 0, 0))
    /\ UNCHANGED << pc, remote, max_epochs, error, epoch, phase, substep,
                    pending_loss, last_step, calls, metric_log, optimizer_steps,
                    params >>
    /\ UNCHANGED script_vars

\* Number of validation batches the sanity check runs.
SanityBatches == Min(NumSanityValSteps, Len(val_dataloader))

\* One sanity-check batch: validation_step under no_grad, no optimizer step.
SanityValStep ==
    /\ pc = "fit"
    /\ stage = "SanityCheck"
    /\ batch_idx < SanityBatches
    /\ LET batch == val_dataloader[batch_idx + 1]
           r == validation_step(params, batch, calls + 1, "validation")
       IN  /\ metric_log' = metric_log \o r.logged
           /\ last_step' = [role |-> "validation", batch |-> batch,
                            params |-> params, ret |-> r.ret]
    /\ calls' = calls + 1
    /\ batch_idx' = batch_idx + 1
    /\ trace' = Append(trace, Event("sanity_val_step", epoch, batch_idx))
    /\ UNCHANGED << pc, remote, max_epochs, error, stage, epoch, phase, substep,
                    pending_loss, optimizer_steps, params >>
    /\ UNCHANGED script_vars

\* Mutant of FitLoopStart: the loop body runs before max_epochs is tested.
FitLoopStartDoWhile ==
    /\ pc = "fit"
    /\ stage = "SanityCheck"
    /\ batch_idx = SanityBatches
    /\ stage' = "Running"
    /\ phase' = "train"
    /\ substep' = "step"
    /\ batch_idx' = 0
    /\ trace' = Append(trace, Event("fit_loop_start", epoch, 0))
    /\ UNCHANGED << pc, remote, max_epochs, error, epoch, pending_loss, last_step,
                    calls, metric_log, optimizer_steps, params >>
    /\ UNCHANGED script_vars

\* The fit loop proper starts; it is skipped when max_epochs is already reached.
FitLoopStart ==
    /\ pc = "fit"
    /\ stage = "SanityCheck"
    /\ batch_idx = SanityBatches
    /\ stage' = IF epoch >= max_epochs THEN "Completed" ELSE "Running"
    /\ phase' = "train"
    /\ substep' = "step"
    /\ batch_idx' = 0
    /\ trace' = Append(trace, Event("fit_loop_start", epoch, 0))
    /\ UNCHANGED << pc, remote, max_epochs, error, epoch, pending_loss, last_step,
                    calls, metric_log, optimizer_steps, params >>
    /\ UNCHANGED script_vars

\* A training batch, first half: the driver calls training_step (forward pass
\* and loss) and keeps the returned loss for backward.
TrainingStep ==
    /\ pc = "fit"
    /\ stage = "Running"
    /\ phase = "train"
    /\ substep = "step"
    /\ LET batch == train_dataloader[batch_idx + 1]
           r == training_step(params, batch, calls + 1, "training")
       IN  /\ metric_log' = metric_log \o r.logged
           /\ pending_loss' = r.ret
           /\ last_step' = [role |-> "training", batch |-> batch,
                            params |-> params, ret |-> r.ret]
    /\ calls' = calls + 1
    /\ substep' = "update"
    /\ trace' = Append(trace, Event("training_step", epoch, batch_idx))
    /\ UNCHANGED << pc, remote, max_epochs, error, stage, epoch, phase, batch_idx,
                    optimizer_steps, params >>
    /\ UNCHANGED script_vars

\* Mutant of OptimizerStep: validation is run after every training batch.
OptimizerStepThenValidate ==
    /\ pc = "fit"
    /\ stage = "Running"
    /\ phase = "train"
    /\ substep = "update"
    /\ params' = sgd_step(params, pending_loss)
    /\ optimizer_steps' = optimizer_steps + 1
    /\ pending_loss' = NoLoss
    /\ substep' = "step"
    /\ batch_idx' = 0
    /\ phase' = "validate"
    /\ trace' = Append(trace, Event("optimizer_step", epoch, batch_idx))
    /\ UNCHANGED << pc, remote, max_epochs, error, stage, epoch, last_step, calls,
                    metric_log >>
    /\ UNCHANGED script_vars

\* A training batch, second half: backward of the loss and the step of the
\* optimizer configure_optimizers returned (line 35).
OptimizerStep ==
    /\ pc = "fit"
    /\ stage = "Running"
    /\ phase = "train"
    /\ substep = "update"
    /\ params' = sgd_step(params, pending_loss)
    /\ optimizer_steps' = optimizer_steps + 1
    /\ pending_loss' = NoLoss
    /\ substep' = "step"
    /\ IF batch_idx + 1 < Len(train_dataloader)
          THEN /\ batch_idx' = batch_idx + 1
               /\ phase' = "train"
          ELSE /\ batch_idx' = 0
               /\ phase' = "validate"
    /\ trace' = Append(trace, Event("optimizer_step", epoch, batch_idx))
    /\ UNCHANGED << pc, remote, max_epochs, error, stage, epoch, last_step, calls,
                    metric_log >>
    /\ UNCHANGED script_vars

\* A validation batch of the epoch: validation_step under no_grad, no
\* optimizer step.  After the last one the epoch ends.
ValidationStep ==
    /\ pc = "fit"
    /\ stage = "Running"
    /\ phase = "validate"
    /\ LET batch == val_dataloader[batch_idx + 1]
           r == validation_step(params, batch, calls + 1, "validation")
       IN  /\ metric_log' = metric_log \o r.logged
           /\ last_step' = [role |-> "validation", batch |-> batch,
                            params |-> params, ret |-> r.ret]
    /\ calls' = calls + 1
    /\ IF batch_idx + 1 < Len(val_dataloader)
          THEN /\ batch_idx' = batch_idx + 1
               /\ UNCHANGED << phase, epoch, stage >>
          ELSE /\ batch_idx' = 0
               /\ phase' = "train"
               /\ epoch' = epoch + 1
               /\ stage' = IF epoch + 1 >= max_epochs THEN "Completed" ELSE "Running"
    /\ trace' = Append(trace, Event("validation_step", epoch, batch_idx))
    /\ UNCHANGED << pc, remote, max_epochs, error, substep, pending_loss,
                    optimizer_steps, params >>
    /\ UNCHANGED script_vars

\* An error inside fit (device set-up, a step) is not handled by the script.
DriverFails ==
    /\ pc = "fit"
    /\ stage \in {"Idle", "SanityCheck", "Running"}
    /\ trainer = "ready"
    /\ stage' = "Failed"
    /\ Raise(ErrorAt(pc))
    /\ trace' = Append(trace, Event("fit_failed", epoch, batch_idx))
    /\ UNCHANGED << remote, max_epochs, epoch, phase, substep, batch_idx,
                    pending_loss, last_step, calls, metric_log, optimizer_steps,
                    params >>
    /\ UNCHANGED script_vars

\* trainer.fit returns to the script.
FitReturn ==
    /\ pc = "fit"
    /\ stage = "Completed"
    /\ pc' = NextStatement(pc)
    /\ trace' = Append(trace, Event("fit_return", epoch, 0))
    /\ UNCHANGED << remote, max_epochs, error >>
    /\ UNCHANGED driver_vars
    /\ UNCHANGED script_vars

\* ------------------------------------------------ inference and report
\* line 78: x, y = next(iter(DataLoader(test_data, batch_size=1)))
LoadSample ==
    /\ pc = "loader"
    /\ sample' = DataLoader(test_data, 1)[1][1]
    /\ pc' = NextStatement(pc)
    /\ trace' = Append(trace, Event("load_sample", 0, 0))
    /\ UNCHANGED << cwd, remote, storage, acquisitions, training_data, test_data,
                    console, constructions, max_epochs, trainer, pred, infer_params,
                    error >>
    /\ UNCHANGED driver_vars

\* Mutant of Inference: the forward pass is followed by an update on the sample.
InferenceUpdating ==
    /\ pc = "inference"
    /\ infer_params' = params
    /\ pred' \in ClassIds
    /\ params' = Append(params, << sample >>)
    /\ pc' = NextStatement(pc)
    /\ trace' = Append(trace, Event("inference", 0, 0))
    /\ UNCHANGED << cwd, remote, storage, acquisitions, training_data, test_data,
                    console, constructions, max_epochs, trainer, sample, error >>
    /\ UNCHANGED << stage, epoch, phase, substep, batch_idx, pending_loss, last_step,
                    calls, metric_log, optimizer_steps >>

\* line 80: pred = model(x); its argmax (line 94) is some class id.
Inference ==
    /\ pc = "inference"
    /\ infer_params' = params
    /\ pred' \in ClassIds
    /\ pc' = NextStatement(pc)
    /\ trace' = Append(trace, Event("inference", 0, 0))
    /\ UNCHANGED << cwd, remote, storage, acquisitions, training_data, test_data,
                    console, constructions, max_epochs, trainer, sample, error >>
    /\ UNCHANGED driver_vars

\* lines 94-95: print(f'Predicted: "{predicted}", Actual: "{actual}"')
Report ==
    /\ pc = "report"
    /\ console' = Append(console,
           [kind |-> "report", a |-> classes[pred + 1], b |-> classes[sample.y + 1]])
    /\ pc' = NextStatement(pc)
    /\ trace' = Append(trace, Event("print", 0, 0))
    /\ UNCHANGED << cwd, remote, storage, acquisitions, training_data, test_data,
                    constructions, max_epochs, trainer, sample, pred, infer_params,
                    error >>
    /\ UNCHANGED driver_vars

\* Any other statement of the script that raises ends the run the same way.
ScriptFails ==
    /\ pc \in {"chdir", "construct", "trainer", "loader", "inference"}
    /\ Raise(ErrorAt(pc))
    /\ trace' = Append(trace, Event("script_failed", 0, 0))
    /\ UNCHANGED << remote, max_epochs >>
    /\ UNCHANGED driver_vars
    /\ UNCHANGED script_vars

Next ==
    \/ AcquireTrain
    \/ AcquireTest
    \/ AcquireFails
    \/ Chdir
    \/ PrintPath
    \/ Construct
    \/ MakeTrainer
    \/ FitStart
    \/ SanityValStep
    \/ FitLoopStart
    \/ TrainingStep
    \/ OptimizerStep
    \/ ValidationStep
    \/ DriverFails
    \/ FitReturn
    \/ LoadSample
    \/ Inference
    \/ Report
    \/ ScriptFails

Spec == Init /\ [][Next]_vars

\* ================================================================ claims
Range(q) == { q[i] : i \in DOMAIN q }

IsPrefix(a, b) ==
    /\ Len(a) <= Len(b)
    /\ \A i \in 1 .. Len(a) : a[i] = b[i]

EpochOps == {"training_step", "optimizer_step", "validation_step"}
IsEpochOp(ev) == ev.op \in EpochOps
\* The operations of the epoch loop, in the order they were executed.
EpochTrace == SelectSeq(trace, IsEpochOp)

NumTrainBatches == Len(train_dataloader)
NumValBatches == Len(val_dataloader)
EpochLen == 2 * NumTrainBatches + NumValBatches

\* E epochs, each: (training_step, optimizer_step) per training batch in
\* order, then validation_step per validation batch in order.
ExpectedEpochTrace(E) ==
    [ n \in 1 .. (E * EpochLen) |->
        LET e == (n - 1) \div EpochLen
            k == ((n - 1) % EpochLen) + 1
        IN  IF k <= 2 * NumTrainBatches
            THEN IF k % 2 = 1
                 THEN Event("training_step", e, (k - 1) \div 2)
                 ELSE Event("optimizer_step", e, (k \div 2) - 1)
            ELSE Event("validation_step", e, k - 2 * NumTrainBatches - 1) ]

\* The parameters after E epochs over the training batches, never reset.
ExpectedParams(E) ==
    [ n \in 1 .. (E * NumTrainBatches) |->
        train_dataloader[((n - 1) % NumTrainBatches) + 1] ]

C2_OnlyOptimizerWrites ==
    [][ params' # params =>
          /\ pc = "fit"
          /\ stage = "Running"
          /\ phase = "train"
          /\ substep = "update"
          /\ params' = sgd_step(params, pending_loss)
          /\ optimizer_steps' = optimizer_steps + 1 ]_vars

C2_Witness ==
    /\ pc = "done"
    /\ optimizer_steps >= 2
    /\ calls > optimizer_steps

FailureOps == {"acquire_failed", "fit_failed", "script_failed"}

ErrorsOf(op) ==
    CASE op = "acquire_failed" -> {"DatasetAcquisitionError"}
      [] op = "fit_failed" -> {"DeviceAllocationError", "RuntimeError"}
      [] OTHER -> {"FileNotFoundError", "RuntimeError"}

Count(op) == Cardinality({ i \in DOMAIN trace : trace[i].op = op })

\* C4: a raised error is the last thing that happens: the run is failed
\* exactly when an error is recorded, the recorded error is the one the
\* failing step raised, the driver is Failed when the step was inside fit,
\* nothing was executed after the failure, no stage was run twice, and the
\* report line is not on the console.
C4_FailStop ==
    /\ (pc = "failed") <=> (error # "none")
    /\ \A i \in DOMAIN trace :
          trace[i].op \in FailureOps =>
             /\ i = Len(trace)
             /\ pc = "failed"
             /\ error \in ErrorsOf(trace[i].op)
             /\ (trace[i].op = "fit_failed") <=> (stage = "Failed")
    /\ pc = "failed" =>
          /\ trace # << >>
          /\ trace[Len(trace)].op \in FailureOps
          /\ \A i \in DOMAIN console : console[i].kind # "report"
    /\ \A op \in {"acquire_train", "acquire_t10k", "chdir", "construct", "trainer",
                  "fit_start", "load_sample", "inference"} : Count(op) <= 1

C4_Witness ==
    /\ pc = "failed"
    /\ stage = "Failed"
    /\ optimizer_steps > 0

EntriesOf(c) == { i \in DOMAIN metric_log : metric_log[i].call = c }

\* C5: every invocation of a loss step made one log entry, named train_loss
\* in the training role and val_loss in the validation role.
C5_OneMetricPerStep ==
    \A c \in 1 .. calls :
       /\ Cardinality(EntriesOf(c)) = 1
       /\ \A i \in EntriesOf(c) :
             metric_log[i].name =
                IF metric_log[i].role = "training" THEN "train_loss" ELSE "val_loss"

ReportLines == { i \in DOMAIN console : console[i].kind = "report" }

C8_NoRedownload ==
    \A i \in DOMAIN acquisitions : \A j \in DOMAIN acquisitions :
       ( /\ i < j
         /\ acquisitions[i].ok
         /\ acquisitions[i].location = acquisitions[j].location )
       => ( /\ ~acquisitions[j].downloaded
            /\ acquisitions[j].ok )

C8_Witness ==
    /\ Len(acquisitions) = 2
    /\ acquisitions[1].ok
    /\ acquisitions[1].downloaded
    /\ acquisitions[2].split = "t10k"

\* C9: one model is created; its parameters always are the created ones
\* with one update per optimizer step applied in order (never reset); when
\* fit completed they carry max_epochs x (training batches) updates, and
\* these are the parameters the inference forward pass read.
C9_TrainedOnce ==
    /\ constructions <= 1
    /\ Len(params) = optimizer_steps
    /\ IsPrefix(params, ExpectedParams(max_epochs))
    /\ stage = "Completed" =>
          /\ constructions = 1
          /\ optimizer_steps = max_epochs * NumTrainBatches
          /\ params = ExpectedParams(max_epochs)
    /\ pc \in {"report", "done"} =>
          /\ constructions = 1
          /\ infer_params = ExpectedParams(max_epochs)

C9_Witness ==
    /\ pc = "done"
    /\ optimizer_steps >= 4

\* C10: the loss a validation step returned is the loss training_step
\* returns for the same batch under the same parameters.
C10_SameLoss ==
    last_step.role = "validation" =>
       last_step.ret =
          training_step(last_step.params, last_step.batch, calls, "training").ret

C10_Witness ==
    /\ last_step.role = "validation"
    /\ Len(last_step.batch) = 2
    /\ Len(last_step.params) > 0

====
